---- MODULE Spec2Model ----
(***************************************************************************)
(* Model of src/modules/statistics/AvgRTPStatsReporter.js:                 *)
(* AverageStatReport (one running average), ConnectionAvgStats (the        *)
(* per-connection RTT monitor, one for the JVB and one for the P2P         *)
(* connection) and AvgRTPStatsReporter (the conference-wide reporter).     *)
(* Every action is one event of the conference, handled to completion by   *)
(* the listeners registered at that moment (JavaScript runs each handler   *)
(* synchronously).                                                         *)
(***************************************************************************)
EXTENDS Integers, Sequences, FiniteSets, TLC

----------------------------------------------------------------------------
(* Bounds of the model. *)

\* Largest window size n the reporter is constructed with.
MaxN == 3
\* Cap on the samples one never-reset average may collect (its counter is
\* unbounded in the code): one sample more than the largest window.
MaxTotalSamples == MaxN + 1
\* Cap on the values one remote participant reports within one window.
MaxRemoteSamples == 2

----------------------------------------------------------------------------
(* JavaScript values.  A number is an exact rational n/d (d > 0), NaN is   *)
(* 0/0 and +-Infinity is +-1/0, which is what IEEE division by zero gives. *)
(* Everything that is not a number is the value undefined.                 *)

RECURSIVE GCD(_, _)
GCD(a, b) == IF b = 0 THEN a ELSE GCD(b, a % b)

Abs(x) == IF x < 0 THEN -x ELSE x

Sign(x) == IF x < 0 THEN -1 ELSE IF x > 0 THEN 1 ELSE 0

Rat(n, d) ==
    LET s == IF d < 0 THEN -1 ELSE 1
        g == GCD(Abs(n), Abs(d))
    IN  [t |-> "number", n |-> (s * n) \div g, d |-> (s * d) \div g]

Num(i) == [t |-> "number", n |-> i, d |-> 1]

NaN == [t |-> "number", n |-> 0, d |-> 0]

Infinity(s) == [t |-> "number", n |-> s, d |-> 0]

Undefined == [t |-> "undefined", n |-> 0, d |-> 0]

TypeOf(v) == v.t

\* isNaN(v): undefined coerces to NaN.
IsNaN(v) == v.t # "number" \/ (v.n = 0 /\ v.d = 0)

\* a + b on numbers.
Plus(a, b) ==
    IF IsNaN(a) \/ IsNaN(b) THEN NaN
    ELSE IF a.d = 0 /\ b.d = 0 THEN (IF a.n = b.n THEN a ELSE NaN)
    ELSE IF a.d = 0 THEN a
    ELSE IF b.d = 0 THEN b
    ELSE Rat(a.n * b.d + b.n * a.d, a.d * b.d)

\* a / b on numbers.
Div(a, b) ==
    IF IsNaN(a) \/ IsNaN(b) THEN NaN
    ELSE IF b.d = 0 THEN (IF a.d = 0 THEN NaN ELSE Num(0))
    ELSE IF a.d = 0 THEN Infinity(a.n * (IF b.n < 0 THEN -1 ELSE 1))
    ELSE IF b.n = 0 THEN (IF a.n = 0 THEN NaN ELSE Infinity(Sign(a.n)))
    ELSE Rat(a.n * b.d, a.d * b.n)

\* parseInt(v, 10) of a number or of undefined.
ParseInt(v) ==
    IF v.t # "number" \/ v.d = 0 THEN NaN
    ELSE Num(Sign(v.n) * (Abs(v.n) \div v.d))

----------------------------------------------------------------------------
(* class AverageStatReport: the record [count, sum]; its name is held by   *)
(* the owner.                                                              *)

AverageStatReport == [count |-> 0, sum |-> Num(0)]

\* Mutant: a value that is not a number is counted, and adds nothing.
AddNextCountsAll(avg, nextValue) ==
    IF TypeOf(nextValue) # "number"
    THEN [count |-> avg.count + 1, sum |-> avg.sum]
    ELSE [count |-> avg.count + 1, sum |-> Plus(avg.sum, nextValue)]

addNext(avg, nextValue) ==
    IF TypeOf(nextValue) # "number" THEN avg
    ELSE [count |-> avg.count + 1, sum |-> Plus(avg.sum, nextValue)]

calculate(avg) == Div(avg.sum, Num(avg.count))

\* The event report(isP2P) hands to Statistics.analytics.sendEvent.
report(name, avg, isP2P) ==
    [name    |-> (IF isP2P THEN "p2p." ELSE "") \o name,
     wrapped |-> TRUE,
     value   |-> calculate(avg)]

\* Mutant: the sum is cleared, the count is kept.
ResetSumOnly(avg) == [count |-> avg.count, sum |-> Num(0)]

reset(avg) == [count |-> 0, sum |-> Num(0)]

----------------------------------------------------------------------------
(* The state.                                                              *)

VARIABLES
    reporter,         \* the AvgRTPStatsReporter: [_n] when disabled, else
                      \* _n, _sampleIdx, _conference and the ten averages
    jvbStatsMonitor,  \* reporter.jvbStatsMonitor, Undefined until created
    p2pStatsMonitor,  \* reporter.p2pStatsMonitor, Undefined until created
    listeners,        \* the handlers registered on the conference
    isP2PActive,      \* conference.isP2PActive()
    sent,             \* what the last call gave Statistics.analytics.sendEvent
    last,             \* the last event of the conference / call on the reporter
    fedBitrateUp,     \* history: the values handed to _avgBitrateUp.addNext
                      \* since it was last reset
    fedRTT,           \* history: the numbers the JVB connection delivered as
                      \* transport[0].rtt, with RTT statistics supported,
                      \* since the window began or a sample came without
                      \* transport
    fedModes          \* history: the values of isP2PActive under which the
                      \* samples were taken that the reporter's averages
                      \* hold: window for the nine of _resetAvgStats, total
                      \* for _avgPacketLossTotal

vars == <<reporter, jvbStatsMonitor, p2pStatsMonitor, listeners, isP2PActive,
          sent, last, fedBitrateUp, fedRTT, fedModes>>

\* conference.myUserId() and the ids of the remote participants.
myUserId == "me"

ParticipantIds == {"p1", "p2"}

\* new Map()
EmptyMap == [id \in {} |-> AverageStatReport]

MapDelete(map, id) == [k \in (DOMAIN map) \ {id} |-> map[k]]

MapSet(map, id, avg) ==
    [k \in (DOMAIN map) \cup {id} |-> IF k = id THEN avg ELSE map[k]]

----------------------------------------------------------------------------
(* class ConnectionAvgStats                                                *)

\* The fields the constructor sets; the listeners it registers are in
\* ConnectionAvgStatsListeners.
ConnectionAvgStats(isP2P, n) ==
    [t                |-> "object",
     isP2P            |-> isP2P,
     _n               |-> n,
     _sampleIdx       |-> 0,
     _avgRTT          |-> AverageStatReport,
     _avgRemoteRTTMap |-> EmptyMap]

ConnectionAvgStatsListeners(isP2P) ==
    IF isP2P
    THEN {"p2p._onConnectionStats"}
    ELSE {"jvb._onConnectionStats", "jvb._onUserLeft",
          "jvb._onRemoteStatsUpdated"}

\* Mutant: the map of the participants' averages is kept.
MonitorResetKeepsMap(m) ==
    [m EXCEPT !._avgRTT = reset(m._avgRTT),
              !._sampleIdx = 0]

\* ConnectionAvgStats._resetAvgStats
MonitorResetAvgStats(m) ==
    [m EXCEPT !._avgRTT = reset(m._avgRTT),
              !._avgRemoteRTTMap = EmptyMap,
              !._sampleIdx = 0]

\* ConnectionAvgStats._calculateAvgRemoteRTT: the value it returns.  (The
\* entries it resets are cleared by _resetAvgStats before anything reads
\* them again.)
RECURSIVE SumAvgs(_, _)
SumAvgs(map, ids) ==
    IF ids = {} THEN Num(0)
    ELSE LET id == CHOOSE x \in ids : TRUE
         IN  Plus(calculate(map[id]), SumAvgs(map, ids \ {id}))

_calculateAvgRemoteRTT(map) ==
    LET valid == {id \in DOMAIN map : ~IsNaN(calculate(map[id]))}
    IN  Div(SumAvgs(map, valid), Num(Cardinality(valid)))

\* Mutant: a sample without transport leaves the RTT average as it is.
MonitorAfterSampleKeeps(m, data, rtt) ==
    LET avg == IF ~rtt THEN m._avgRTT
               ELSE IF data.transport.t # "undefined"
                       /\ Len(data.transport.items) > 0
                    THEN addNext(m._avgRTT, data.transport.items[1].rtt)
                    ELSE m._avgRTT
    IN  [m EXCEPT !._avgRTT = avg, !._sampleIdx = m._sampleIdx + 1]

\* ConnectionAvgStats._calculateAvgStats(data); rtt is what
\* RTCBrowserType.supportsRTTStatistics() answers during the call.
\* Gives the monitor afterwards and the events sent.
MonitorAfterSample(m, data, rtt) ==
    LET avg == IF ~rtt THEN m._avgRTT
               ELSE IF data.transport.t # "undefined"
                       /\ Len(data.transport.items) > 0
                    THEN addNext(m._avgRTT, data.transport.items[1].rtt)
                    ELSE reset(m._avgRTT)
    IN  [m EXCEPT !._avgRTT = avg, !._sampleIdx = m._sampleIdx + 1]

\* Mutant: the end-to-end RTT is sent without looking at the local average.
MonitorReportNoLocalCheck(m, rtt) ==
    LET avgRemoteRTT == _calculateAvgRemoteRTT(m._avgRemoteRTTMap)
        avgLocalRTT  == calculate(m._avgRTT)
    IN  IF ~rtt THEN <<>>
        ELSE <<report("stat.avg.rtt", m._avgRTT, m.isP2P)>>
             \o (IF ~m.isP2P /\ ~IsNaN(avgRemoteRTT)
                 THEN <<[name    |-> "stat.avg.end2endrtt",
                         wrapped |-> FALSE,
                         value   |-> Plus(avgLocalRTT, avgRemoteRTT)]>>
                 ELSE <<>>)

\* Lines 180-194: the reports of one window boundary.
MonitorReport(m, rtt) ==
    LET avgRemoteRTT == _calculateAvgRemoteRTT(m._avgRemoteRTTMap)
        avgLocalRTT  == calculate(m._avgRTT)
    IN  IF ~rtt THEN <<>>
        ELSE <<report("stat.avg.rtt", m._avgRTT, m.isP2P)>>
             \o (IF ~m.isP2P /\ ~IsNaN(avgLocalRTT) /\ ~IsNaN(avgRemoteRTT)
                 THEN <<[name    |-> "stat.avg.end2endrtt",
                         wrapped |-> FALSE,
                         value   |-> Plus(avgLocalRTT, avgRemoteRTT)]>>
                 ELSE <<>>)

\* Mutant: the averages are reset only where the report is made.
MonitorCalculateResetsWithReport(m, data, rtt) ==
    IF data.t = "undefined" THEN [monitor |-> m, sent |-> <<>>]
    ELSE LET m1 == MonitorAfterSample(m, data, rtt)
         IN  IF m1._sampleIdx >= m1._n /\ rtt
             THEN [monitor |-> MonitorResetAvgStats(m1),
                   sent    |-> MonitorReport(m1, rtt)]
             ELSE [monitor |-> m1, sent |-> <<>>]

\* Mutant: the window closes one sample late.
MonitorCalculateOneLate(m, data, rtt) ==
    IF data.t = "undefined" THEN [monitor |-> m, sent |-> <<>>]
    ELSE LET m1 == MonitorAfterSample(m, data, rtt)
         IN  IF m1._sampleIdx > m1._n
             THEN [monitor |-> MonitorResetAvgStats(m1),
                   sent    |-> MonitorReport(m1, rtt)]
             ELSE [monitor |-> m1, sent |-> <<>>]

Monitor_calculateAvgStats(m, data, rtt) ==
    IF data.t = "undefined" THEN [monitor |-> m, sent |-> <<>>]
    ELSE LET m1 == MonitorAfterSample(m, data, rtt)
         IN  IF m1._sampleIdx >= m1._n
             THEN [monitor |-> MonitorResetAvgStats(m1),
                   sent    |-> MonitorReport(m1, rtt)]
             ELSE [monitor |-> m1, sent |-> <<>>]

\* Mutant: the stats of either connection are taken.
OnConnectionStatsAnyMode(m, tpcIsP2P, stats, rtt) ==
    Monitor_calculateAvgStats(m, stats, rtt)

\* The _onConnectionStats listener of one monitor.
_onConnectionStats(m, tpcIsP2P, stats, rtt) ==
    IF m.isP2P = tpcIsP2P
    THEN Monitor_calculateAvgStats(m, stats, rtt)
    ELSE [monitor |-> m, sent |-> <<>>]

\* Mutant: an update without a number leaves the participant's entry.
ProcessRemoteStatsKeeps(m, id, data) ==
    LET validData == TypeOf(data.jvbRTT) = "number"
        map       == m._avgRemoteRTTMap
        rttAvg    == IF id \in DOMAIN map THEN map[id] ELSE AverageStatReport
    IN  IF validData
        THEN [m EXCEPT !._avgRemoteRTTMap =
                           MapSet(map, id, addNext(rttAvg, data.jvbRTT))]
        ELSE m

\* ConnectionAvgStats._processRemoteStats(id, data)
_processRemoteStats(m, id, data) ==
    LET validData == TypeOf(data.jvbRTT) = "number"
        map       == m._avgRemoteRTTMap
        rttAvg    == IF id \in DOMAIN map THEN map[id] ELSE AverageStatReport
    IN  IF validData
        THEN [m EXCEPT !._avgRemoteRTTMap =
                           MapSet(map, id, addNext(rttAvg, data.jvbRTT))]
        ELSE IF id \in DOMAIN map
             THEN [m EXCEPT !._avgRemoteRTTMap = MapDelete(map, id)]
             ELSE m

\* Mutant: the participant's average is reset, its entry kept.
OnUserLeftResets(m, id) ==
    IF id \in DOMAIN m._avgRemoteRTTMap
    THEN [m EXCEPT !._avgRemoteRTTMap[id] = reset(@)]
    ELSE m

\* The _onUserLeft listener.
_onUserLeft(m, id) ==
    [m EXCEPT !._avgRemoteRTTMap = MapDelete(m._avgRemoteRTTMap, id)]

----------------------------------------------------------------------------
(* class AvgRTPStatsReporter                                               *)

\* The fields and listeners the constructor leaves behind.
AvgRTPStatsReporter(n) ==
    IF n > 0
    THEN [_n                  |-> n,
          _sampleIdx          |-> 0,
          _conference         |-> "conference",
          _avgBitrateUp       |-> AverageStatReport,
          _avgBitrateDown     |-> AverageStatReport,
          _avgBandwidthUp     |-> AverageStatReport,
          _avgBandwidthDown   |-> AverageStatReport,
          _avgPacketLossTotal |-> AverageStatReport,
          _avgPacketLossUp    |-> AverageStatReport,
          _avgPacketLossDown  |-> AverageStatReport,
          _avgRemoteFPS       |-> AverageStatReport,
          _avgLocalFPS        |-> AverageStatReport,
          _avgCQ              |-> AverageStatReport]
    ELSE [_n |-> n]

\* Mutant: the listeners are registered before n is looked at.
ListenersWhateverN(n) ==
    {"reporter._onLocalStatsUpdated", "reporter._onP2PStatusChanged"}
        \cup ConnectionAvgStatsListeners(FALSE)
        \cup ConnectionAvgStatsListeners(TRUE)

AvgRTPStatsReporterListeners(n) ==
    IF n > 0
    THEN {"reporter._onLocalStatsUpdated", "reporter._onP2PStatusChanged"}
         \cup ConnectionAvgStatsListeners(FALSE)
         \cup ConnectionAvgStatsListeners(TRUE)
    ELSE {}

\* Mutant: the upload bitrate average is forgotten in the reset.
ResetKeepsBitrateUp(r) ==
    [r EXCEPT !._avgBitrateDown   = reset(r._avgBitrateDown),
              !._avgBandwidthUp   = reset(r._avgBandwidthUp),
              !._avgBandwidthDown = reset(r._avgBandwidthDown),
              !._avgPacketLossUp  = reset(r._avgPacketLossUp),
              !._avgPacketLossDown = reset(r._avgPacketLossDown),
              !._avgRemoteFPS     = reset(r._avgRemoteFPS),
              !._avgLocalFPS      = reset(r._avgLocalFPS),
              !._avgCQ            = reset(r._avgCQ),
              !._sampleIdx        = 0]

\* AvgRTPStatsReporter._resetAvgStats
_resetAvgStats(r) ==
    [r EXCEPT !._avgBitrateUp     = reset(r._avgBitrateUp),
              !._avgBitrateDown   = reset(r._avgBitrateDown),
              !._avgBandwidthUp   = reset(r._avgBandwidthUp),
              !._avgBandwidthDown = reset(r._avgBandwidthDown),
              !._avgPacketLossUp  = reset(r._avgPacketLossUp),
              !._avgPacketLossDown = reset(r._avgPacketLossDown),
              !._avgRemoteFPS     = reset(r._avgRemoteFPS),
              !._avgLocalFPS      = reset(r._avgLocalFPS),
              !._avgCQ            = reset(r._avgCQ),
              !._sampleIdx        = 0]

\* AvgRTPStatsReporter._calculateAvgVideoFps(frameRate, isLocal); frameRate
\* maps a peer id to the fps values of its videos (one per ssrc).
RECURSIVE SumParsed(_)
SumParsed(videos) ==
    IF videos = <<>> THEN Num(0)
    ELSE Plus(ParseInt(Head(videos)), SumParsed(Tail(videos)))

RECURSIVE SumPeerAvgs(_, _)
SumPeerAvgs(peers, ids) ==
    IF ids = {} THEN Num(0)
    ELSE LET peerID == CHOOSE x \in ids : TRUE
             videos == peers[peerID]
             peerAvg == Div(SumParsed(videos), Num(Len(videos)))
         IN  Plus(peerAvg, SumPeerAvgs(peers, ids \ {peerID}))

_calculateAvgVideoFps(frameRate, isLocal) ==
    LET peers == frameRate.peers
        counted == {peerID \in DOMAIN peers :
                       /\ IF isLocal THEN peerID = myUserId
                                     ELSE peerID # myUserId
                       /\ Len(peers[peerID]) > 0}
    IN  Div(SumPeerAvgs(peers, counted), Num(Cardinality(counted)))

\* The first of the checks of lines 449-476 that fails, "none" if none does.
Missing(data) ==
    IF data.t = "undefined" THEN "data"
    ELSE IF data.bitrate.t = "undefined" THEN "bitrate"
    ELSE IF data.bandwidth.t = "undefined" THEN "bandwidth"
    ELSE IF data.packetLoss.t = "undefined" THEN "packetLoss"
    ELSE IF data.framerate.t = "undefined" THEN "framerate"
    ELSE "none"

\* Lines 478-498: the sample is fed to the averages; bw is what
\* RTCBrowserType.supportsBandwidthStatistics() answers during the call.
ReporterAfterSample(r, data, bw) ==
    [r EXCEPT
        !._avgBitrateUp   = addNext(@, data.bitrate.upload),
        !._avgBitrateDown = addNext(@, data.bitrate.download),
        !._avgBandwidthUp =
            IF bw THEN addNext(@, data.bandwidth.upload) ELSE @,
        !._avgBandwidthDown =
            IF bw THEN addNext(@, data.bandwidth.download) ELSE @,
        !._avgPacketLossUp    = addNext(@, data.packetLoss.upload),
        !._avgPacketLossDown  = addNext(@, data.packetLoss.download),
        !._avgPacketLossTotal = addNext(@, data.packetLoss.total),
        !._avgCQ              = addNext(@, data.connectionQuality),
        !._avgRemoteFPS =
            addNext(@, _calculateAvgVideoFps(data.framerate, FALSE)),
        !._avgLocalFPS =
            addNext(@, _calculateAvgVideoFps(data.framerate, TRUE)),
        !._sampleIdx = @ + 1]

\* Lines 501-512: the reports of one window boundary, in order.
ReporterReport(r, isP2P, bw) ==
    <<report("stat.avg.bitrate.upload", r._avgBitrateUp, isP2P),
      report("stat.avg.bitrate.download", r._avgBitrateDown, isP2P)>>
    \o (IF bw
        THEN <<report("stat.avg.bandwidth.upload", r._avgBandwidthUp, isP2P),
               report("stat.avg.bandwidth.download", r._avgBandwidthDown,
                      isP2P)>>
        ELSE <<>>)
    \o <<report("stat.avg.packetloss.upload", r._avgPacketLossUp, isP2P),
         report("stat.avg.packetloss.download", r._avgPacketLossDown, isP2P),
         report("stat.avg.packetloss.total", r._avgPacketLossTotal, isP2P),
         report("stat.avg.framerate.remote", r._avgRemoteFPS, isP2P),
         report("stat.avg.framerate.local", r._avgLocalFPS, isP2P),
         report("stat.avg.cq", r._avgCQ, isP2P)>>

\* Mutant: the skip is taken in P2P mode instead of JVB mode.
ShortCircuitInP2P(isP2P, peerCount) == isP2P /\ peerCount < 1

\* Mutant: the local participant is counted among the participants.
ShortCircuitCountsSelf(isP2P, peerCount) == ~isP2P /\ peerCount < 2

\* Line 434: the sample is skipped.
ShortCircuit(isP2P, peerCount) == ~isP2P /\ peerCount < 1

\* Mutant: the sample is counted before its fields are checked.
CalculateCountsDropped(r, data, isP2P, peerCount, bw) ==
    IF ShortCircuit(isP2P, peerCount)
    THEN [reporter |-> r, sent |-> <<>>, outcome |-> "skipped"]
    ELSE IF Missing(data) # "none"
    THEN [reporter |-> [r EXCEPT !._sampleIdx = @ + 1], sent |-> <<>>,
          outcome |-> "dropped"]
    ELSE LET r1 == ReporterAfterSample(r, data, bw)
         IN  IF r1._sampleIdx >= r1._n
             THEN [reporter |-> _resetAvgStats(r1),
                   sent     |-> ReporterReport(r1, isP2P, bw),
                   outcome  |-> "reported"]
             ELSE [reporter |-> r1, sent |-> <<>>, outcome |-> "accumulated"]

\* AvgRTPStatsReporter._calculateAvgStats(data): the reporter afterwards,
\* the events sent and what became of the sample; r1 is the reporter after
\* line 498.
_calculateAvgStats(r, data, isP2P, peerCount, bw) ==
    IF ShortCircuit(isP2P, peerCount)
    THEN [reporter |-> r, sent |-> <<>>, outcome |-> "skipped"]
    ELSE IF Missing(data) # "none"
    THEN [reporter |-> r, sent |-> <<>>, outcome |-> "dropped"]
    ELSE CHOOSE res \in
             {IF r1._sampleIdx >= r1._n
              THEN [reporter |-> _resetAvgStats(r1),
                    sent     |-> ReporterReport(r1, isP2P, bw),
                    outcome  |-> "reported"]
              ELSE [reporter |-> r1, sent |-> <<>>, outcome |-> "accumulated"]
                 : r1 \in {ReporterAfterSample(r, data, bw)}} : TRUE

\* AvgRTPStatsReporter.dispose and ConnectionAvgStats.dispose: the listeners
\* left on the conference.
\* Mutant: only the connection stats listener is removed.
MonitorDisposeStatsOnly(ls, isP2P) ==
    IF isP2P
    THEN ls \ {"p2p._onConnectionStats"}
    ELSE ls \ {"jvb._onConnectionStats"}

MonitorDispose(ls, isP2P) ==
    IF isP2P
    THEN ls \ {"p2p._onConnectionStats"}
    ELSE (ls \ {"jvb._onConnectionStats"})
            \ {"jvb._onRemoteStatsUpdated", "jvb._onUserLeft"}

ReporterDispose(ls) ==
    MonitorDispose(
        MonitorDispose(
            ls \ {"reporter._onP2PStatusChanged",
                  "reporter._onLocalStatsUpdated"},
            FALSE),
        TRUE)

----------------------------------------------------------------------------
(* What the conference delivers.                                           *)

Pair(u, d) == [t |-> "object", upload |-> u, download |-> d]

Loss(u, d, total) ==
    [t |-> "object", upload |-> u, download |-> d, total |-> total]

\* Two videos of a remote peer and one of the local user.
FrameRateAll ==
    [t |-> "object",
     peers |-> [id \in {myUserId, "p1"} |->
                   IF id = myUserId THEN <<Num(30)>>
                                    ELSE <<Num(10), Num(20)>>]]

\* A local user without videos and a remote peer with an unreadable one.
FrameRateNone ==
    [t |-> "object",
     peers |-> [id \in {myUserId, "p1"} |->
                   IF id = myUserId THEN <<>> ELSE <<Num(10), Undefined>>]]

BitrateUploads == {Num(100), Num(200)}

\* A sample with every field numeric.
FullStats(u) ==
    [t                 |-> "object",
     bitrate           |-> Pair(u, Num(400)),
     bandwidth         |-> Pair(Num(500), Num(600)),
     packetLoss        |-> Loss(Num(1), Num(2), Num(3)),
     framerate         |-> FrameRateAll,
     connectionQuality |-> Num(80)]

\* A sample whose fields are there but hold no numbers.
SparseStats ==
    [t                 |-> "object",
     bitrate           |-> Pair(Undefined, Undefined),
     bandwidth         |-> Pair(Undefined, Undefined),
     packetLoss        |-> Loss(Undefined, Undefined, Undefined),
     framerate         |-> FrameRateNone,
     connectionQuality |-> Undefined]

WellFormedStats == {FullStats(u) : u \in BitrateUploads} \cup {SparseStats}

\* No sample, or a sample without one of the top-level fields.
MalformedStats ==
    {Undefined,
     [FullStats(Num(100)) EXCEPT !.bitrate = Undefined],
     [FullStats(Num(100)) EXCEPT !.bandwidth = Undefined],
     [FullStats(Num(100)) EXCEPT !.packetLoss = Undefined],
     [FullStats(Num(100)) EXCEPT !.framerate = Undefined]}

LocalStats == WellFormedStats \cup MalformedStats

\* conference.getParticipants().length: nobody else, or somebody.
PeerCounts == 0 .. 1

Transport(items) == [t |-> "object", items |-> items]

StatsOf(transport) == [t |-> "object", transport |-> transport]

Rtt(v) == StatsOf(Transport(<<[rtt |-> v]>>))

ConnectionStats ==
    {Undefined, StatsOf(Undefined), StatsOf(Transport(<<>>)),
     Rtt(Num(50)), Rtt(Num(70)), Rtt(Undefined)}

\* Remote stats, with the participant they are of.
RemoteStats ==
    {<<"p1", [jvbRTT |-> Num(40)]>>, <<"p1", [jvbRTT |-> Undefined]>>,
     <<"p2", [jvbRTT |-> Num(60)]>>, <<"p2", [jvbRTT |-> Undefined]>>,
     <<"p2", [jvbRTT |-> NaN]>>}

\* What the conference delivers in one exploration: the local samples,
\* the connection stats (with the connection they are of), the remote
\* stats, and what RTCBrowserType answers.
ConferenceEnv ==
    [local  |-> {FullStats(Num(100)), Undefined},
     bw     |-> {TRUE},
     conn   |-> BOOLEAN \X {Rtt(Num(50))},
     rtt    |-> {TRUE},
     remote |-> {<<"p1", [jvbRTT |-> Num(40)]>>,
                 <<"p1", [jvbRTT |-> Undefined]>>}]

ReporterEnv ==
    [local  |-> LocalStats,
     bw     |-> BOOLEAN,
     conn   |-> BOOLEAN \X {Undefined},
     rtt    |-> {TRUE},
     remote |-> {<<"p1", [jvbRTT |-> Undefined]>>}]

MonitorEnv ==
    [local  |-> {Undefined},
     bw     |-> {TRUE},
     conn   |-> ({FALSE} \X ConnectionStats) \cup {<<TRUE, Rtt(Undefined)>>},
     rtt    |-> BOOLEAN,
     remote |-> RemoteStats]

LiveEnv ==
    [local  |-> {SparseStats, Undefined},
     bw     |-> BOOLEAN,
     conn   |-> BOOLEAN \X {Undefined},
     rtt    |-> {TRUE},
     remote |-> {<<"p1", [jvbRTT |-> Undefined]>>}]

WindowSizes == -1 .. MaxN

----------------------------------------------------------------------------
(* The state after new AvgRTPStatsReporter(conference, n).                 *)

Init ==
    \E n \in WindowSizes :
        /\ reporter = AvgRTPStatsReporter(n)
        /\ jvbStatsMonitor =
               IF n > 0 THEN ConnectionAvgStats(FALSE, n) ELSE Undefined
        /\ p2pStatsMonitor =
               IF n > 0 THEN ConnectionAvgStats(TRUE, n) ELSE Undefined
        /\ listeners = AvgRTPStatsReporterListeners(n)
        /\ isP2PActive = FALSE
        /\ sent = <<>>
        /\ last = [ev |-> "constructor"]
        /\ fedBitrateUp = <<>>
        /\ fedRTT = <<>>
        /\ fedModes = [window |-> {}, total |-> {}]

----------------------------------------------------------------------------
(* The histories.                                                          *)

\* The nine averages AvgRTPStatsReporter._resetAvgStats resets.
WindowAverages(r) ==
    <<r._avgBitrateUp, r._avgBitrateDown, r._avgBandwidthUp,
      r._avgBandwidthDown, r._avgPacketLossUp, r._avgPacketLossDown,
      r._avgRemoteFPS, r._avgLocalFPS, r._avgCQ>>

\* The modes of the samples an average holds after a step taken in mode
\* isP2P: none when it holds nothing, one more when it took a value.
ModesOf(modes, before, after, isP2P) ==
    IF after.count = 0 THEN {}
    ELSE IF after.count > before.count THEN modes \cup {isP2P}
    ELSE modes

\* fedModes after a step that takes the reporter from r to r1.
ModesHeld(modes, r, r1, isP2P) ==
    [window |-> UNION {ModesOf(modes.window, WindowAverages(r)[i],
                               WindowAverages(r1)[i], isP2P) : i \in 1 .. 9},
     total  |-> ModesOf(modes.total, r._avgPacketLossTotal,
                        r1._avgPacketLossTotal, isP2P)]

\* Whether connection stats come with a transport.
HasTransport(stats) ==
    /\ stats.t # "undefined"
    /\ stats.transport.t # "undefined"
    /\ Len(stats.transport.items) > 0

\* fedRTT after one more sample of the JVB connection inside a window.
Delivered(values, stats, rtt) ==
    IF stats.t = "undefined" \/ ~rtt THEN values
    ELSE IF ~HasTransport(stats) THEN <<>>
    ELSE IF stats.transport.items[1].rtt.t = "number"
         THEN Append(values, stats.transport.items[1].rtt)
         ELSE values

----------------------------------------------------------------------------
(* The events.                                                             *)

\* ConnectionQualityEvents.LOCAL_STATS_UPDATED
LocalStatsUpdated(data, peerCount, bw) ==
    IF "reporter._onLocalStatsUpdated" \in listeners
    THEN \E res \in {_calculateAvgStats(reporter, data, isP2PActive,
                                        peerCount, bw)} :
         LET fed == IF res.outcome \in {"accumulated", "reported"}
                    THEN Append(fedBitrateUp, data.bitrate.upload)
                    ELSE fedBitrateUp
         IN  /\ reporter._avgPacketLossTotal.count < MaxTotalSamples
             /\ reporter' = res.reporter
             /\ sent' = res.sent
             /\ fedBitrateUp' = IF res.outcome = "reported" THEN <<>> ELSE fed
             /\ last' = [ev |-> "LOCAL_STATS_UPDATED",
                         outcome |-> res.outcome,
                         peerCount |-> peerCount,
                         missing |-> Missing(data),
                         window |-> IF res.outcome = "reported"
                                    THEN fed ELSE <<>>]
             /\ fedModes' = ModesHeld(fedModes, reporter, res.reporter,
                                      isP2PActive)
             /\ UNCHANGED <<jvbStatsMonitor, p2pStatsMonitor, listeners,
                            isP2PActive, fedRTT>>
    ELSE /\ sent' = <<>>
         /\ last' = [ev |-> "LOCAL_STATS_UPDATED", outcome |-> "unheard",
                     peerCount |-> peerCount, missing |-> Missing(data),
                     window |-> <<>>]
         /\ UNCHANGED <<reporter, jvbStatsMonitor, p2pStatsMonitor,
                        listeners, isP2PActive, fedBitrateUp, fedRTT,
                        fedModes>>

\* ConferenceEvents.P2P_STATUS: the conference has switched between the
\* JVB and the P2P connection.
P2PStatus ==
    /\ isP2PActive' = ~isP2PActive
    /\ sent' = <<>>
    /\ IF "reporter._onP2PStatusChanged" \in listeners
       THEN /\ reporter' = _resetAvgStats(reporter)
            /\ jvbStatsMonitor' = MonitorResetAvgStats(jvbStatsMonitor)
            /\ p2pStatsMonitor' = MonitorResetAvgStats(p2pStatsMonitor)
            /\ fedBitrateUp' = <<>>
            /\ fedRTT' = <<>>
            /\ fedModes' = ModesHeld(fedModes, reporter,
                                     _resetAvgStats(reporter), isP2PActive)
            /\ last' = [ev |-> "P2P_STATUS", heard |-> TRUE]
       ELSE /\ last' = [ev |-> "P2P_STATUS", heard |-> FALSE]
            /\ UNCHANGED <<reporter, jvbStatsMonitor, p2pStatsMonitor,
                           fedBitrateUp, fedRTT, fedModes>>
    /\ UNCHANGED listeners

\* statistics' connection stats of the peer connection tpc.
ConnectionStatsUpdated(tpcIsP2P, stats, rtt) ==
    \E jvb \in {IF "jvb._onConnectionStats" \in listeners
                THEN _onConnectionStats(jvbStatsMonitor, tpcIsP2P, stats, rtt)
                ELSE [monitor |-> jvbStatsMonitor, sent |-> <<>>]},
       p2p \in {IF "p2p._onConnectionStats" \in listeners
                THEN _onConnectionStats(p2pStatsMonitor, tpcIsP2P, stats, rtt)
                ELSE [monitor |-> p2pStatsMonitor, sent |-> <<>>]} :
        /\ jvbStatsMonitor' = jvb.monitor
        /\ p2pStatsMonitor' = p2p.monitor
        /\ sent' = jvb.sent \o p2p.sent
        /\ last' = [ev |-> "CONNECTION_STATS", isP2P |-> tpcIsP2P,
                    rtt |-> rtt, defined |-> stats.t # "undefined",
                    transport |-> HasTransport(stats),
                    window |-> IF jvb.sent # <<>>
                               THEN Delivered(fedRTT, stats, rtt)
                               ELSE <<>>]
        /\ fedRTT' =
               IF "jvb._onConnectionStats" \in listeners /\ ~tpcIsP2P
               THEN IF jvb.monitor._sampleIdx = 0 THEN <<>>
                    ELSE Delivered(fedRTT, stats, rtt)
               ELSE fedRTT
        /\ UNCHANGED <<reporter, listeners, isP2PActive, fedBitrateUp,
                       fedModes>>

\* ConferenceEvents.USER_LEFT
UserLeft(id) ==
    /\ jvbStatsMonitor' =
           IF "jvb._onUserLeft" \in listeners
           THEN _onUserLeft(jvbStatsMonitor, id)
           ELSE jvbStatsMonitor
    /\ sent' = <<>>
    /\ last' = [ev |-> "USER_LEFT", id |-> id,
                known |-> /\ "jvb._onUserLeft" \in listeners
                          /\ id \in DOMAIN jvbStatsMonitor._avgRemoteRTTMap]
    /\ UNCHANGED <<reporter, p2pStatsMonitor, listeners, isP2PActive,
                   fedBitrateUp, fedRTT, fedModes>>

\* ConnectionQualityEvents.REMOTE_STATS_UPDATED
RemoteStatsUpdated(id, data) ==
    /\ IF "jvb._onRemoteStatsUpdated" \in listeners
       THEN /\ id \in DOMAIN jvbStatsMonitor._avgRemoteRTTMap
                  => jvbStatsMonitor._avgRemoteRTTMap[id].count
                         < MaxRemoteSamples
            /\ jvbStatsMonitor' = _processRemoteStats(jvbStatsMonitor, id, data)
       ELSE UNCHANGED jvbStatsMonitor
    /\ sent' = <<>>
    /\ last' = [ev |-> "REMOTE_STATS_UPDATED", id |-> id,
                valid |-> TypeOf(data.jvbRTT) = "number",
                jvbRTT |-> data.jvbRTT]
    /\ UNCHANGED <<reporter, p2pStatsMonitor, listeners, isP2PActive,
                   fedBitrateUp, fedRTT, fedModes>>

\* reporter.dispose(): without _conference (a disabled reporter) the first
\* statement raises a TypeError and nothing else happens.
Dispose ==
    /\ IF "_conference" \in DOMAIN reporter
       THEN /\ listeners' = ReporterDispose(listeners)
            /\ last' = [ev |-> "dispose", threw |-> FALSE]
       ELSE /\ last' = [ev |-> "dispose", threw |-> TRUE]
            /\ UNCHANGED listeners
    /\ sent' = <<>>
    /\ UNCHANGED <<reporter, jvbStatsMonitor, p2pStatsMonitor, isP2PActive,
                   fedBitrateUp, fedRTT, fedModes>>

NextIn(env) ==
    \/ \E data \in env.local, peerCount \in PeerCounts, bw \in env.bw :
           LocalStatsUpdated(data, peerCount, bw)
    \/ P2PStatus
    \/ \E c \in env.conn, rtt \in env.rtt :
           ConnectionStatsUpdated(c[1], c[2], rtt)
    \/ \E id \in ParticipantIds : UserLeft(id)
    \/ \E r \in env.remote : RemoteStatsUpdated(r[1], r[2])
    \/ Dispose

\* Every aggregator at work, on few values.
Spec == Init /\ [][NextIn(ConferenceEnv)]_vars

\* The reporter on every local sample; the connections deliver no stats.
SpecReporter == Init /\ [][NextIn(ReporterEnv)]_vars

\* The monitors on every stats of the JVB connection and every remote
\* stats; the P2P connection's stats carry no number, no local samples.
SpecMonitor == Init /\ [][NextIn(MonitorEnv)]_vars

\* A local sample with every field, taken with one other participant.
SampleArrives ==
    \E bw \in LiveEnv.bw : LocalStatsUpdated(SparseStats, 1, bw)

\* The reporter on local samples that keep arriving: the conference goes
\* on delivering LOCAL_STATS_UPDATED for as long as it runs.
SpecLive == Init /\ [][NextIn(LiveEnv)]_vars /\ WF_vars(SampleArrives)

----------------------------------------------------------------------------
(* Properties.                                                             *)

AllAverages(r) ==
    <<r._avgBitrateUp, r._avgBitrateDown, r._avgBandwidthUp,
      r._avgBandwidthDown, r._avgPacketLossUp, r._avgPacketLossDown,
      r._avgPacketLossTotal, r._avgRemoteFPS, r._avgLocalFPS, r._avgCQ>>

Cleared(avg) == avg.count = 0 /\ avg.sum = Num(0)

\* A local sample the reporter's listener handled in this step.
LocalHandled == last'.ev = "LOCAL_STATS_UPDATED" /\ last'.outcome # "unheard"

E2E(events) ==
    {i \in 1 .. Len(events) : events[i].name = "stat.avg.end2endrtt"}

\* The participants of a map whose average is a number, and the mean of
\* their averages, computed on integers.
DefinedIds(map) ==
    {id \in DOMAIN map : map[id].count > 0 /\ ~IsNaN(map[id].sum)}

RECURSIVE SumOfAverages(_, _)
SumOfAverages(map, ids) ==
    IF ids = {} THEN Num(0)
    ELSE LET id == CHOOSE x \in ids : TRUE
             rest == SumOfAverages(map, ids \ {id})
             den == map[id].sum.d * map[id].count
         IN  Rat(map[id].sum.n * rest.d + rest.n * den, den * rest.d)

MeanOfDefined(map) ==
    LET ids == DefinedIds(map)
        total == SumOfAverages(map, ids)
    IN  IF ids = {} THEN NaN ELSE Rat(total.n, total.d * Cardinality(ids))

RECURSIVE SumOf(_)
SumOf(values) ==
    IF values = <<>> THEN 0 ELSE Head(values).n + SumOf(Tail(values))

AllIntegers(values) ==
    \A i \in 1 .. Len(values) : values[i].t = "number" /\ values[i].d = 1

\* C1: right after a P2P_STATUS event is handled, the reporter and both
\* monitors have _sampleIdx 0, every average they own (the total packet
\* loss too) has count 0 and sum 0, the JVB monitor's map of remote RTTs
\* is empty, and the handler has sent nothing.
C1_ModeSwitchClearsEverything ==
    (last.ev = "P2P_STATUS" /\ last.heard) =>
        /\ reporter._sampleIdx = 0
        /\ jvbStatsMonitor._sampleIdx = 0
        /\ p2pStatsMonitor._sampleIdx = 0
        /\ \A i \in 1 .. 10 : Cleared(AllAverages(reporter)[i])
        /\ Cleared(jvbStatsMonitor._avgRTT)
        /\ Cleared(p2pStatsMonitor._avgRTT)
        /\ DOMAIN jvbStatsMonitor._avgRemoteRTTMap = {}
        /\ DOMAIN p2pStatsMonitor._avgRemoteRTTMap = {}
        /\ sent = <<>>

\* C2, as claimed: a local sample handled in P2P mode with no other
\* participant changes nothing in the reporter and sends nothing.
C2_SkippedInP2PAlone ==
    [][(LocalHandled /\ isP2PActive /\ last'.peerCount = 0)
           => (reporter' = reporter /\ sent' = <<>>)]_vars

\* C2, amended: a local sample handled in JVB mode with no other
\* participant changes nothing in the reporter (its _sampleIdx and the
\* count and sum of every average) and sends nothing.
C2_SkippedInJVBAlone ==
    [][(LocalHandled /\ ~isP2PActive /\ last'.peerCount = 0)
           => (reporter' = reporter /\ sent' = <<>>)]_vars

C2_Witness ==
    /\ last.ev = "LOCAL_STATS_UPDATED"
    /\ last.outcome = "skipped"
    /\ last.missing = "none"
    /\ ~isP2PActive
    /\ last.peerCount = 0
    /\ reporter._sampleIdx > 0

\* C3: the samples accepted since the last reset are as many as
\* _sampleIdx and fewer than n, and accepting one sends nothing; the report
\* comes with the n-th one, _sampleIdx is 0 after it, and when the n upload
\* bitrates of the window are numbers the first event sent is the upload
\* bitrate event with their arithmetic mean.
C3_WindowMean ==
    last.ev = "LOCAL_STATS_UPDATED" =>
        /\ last.outcome = "accumulated" =>
               /\ sent = <<>>
               /\ reporter._sampleIdx = Len(fedBitrateUp)
               /\ Len(fedBitrateUp) < reporter._n
        /\ last.outcome = "reported" =>
               /\ Len(last.window) = reporter._n
               /\ reporter._sampleIdx = 0
               /\ AllIntegers(last.window) =>
                      sent[1] =
                          [name |-> (IF isP2PActive THEN "p2p." ELSE "")
                                        \o "stat.avg.bitrate.upload",
                           wrapped |-> TRUE,
                           value |-> Rat(SumOf(last.window),
                                         Len(last.window))]

C3_Witness ==
    /\ last.ev = "LOCAL_STATS_UPDATED"
    /\ last.outcome = "reported"
    /\ last.peerCount = 1
    /\ last.window = <<Num(100), Num(200), Num(200)>>
    /\ sent[1].name = "stat.avg.bitrate.upload"
    /\ sent[1].value = [t |-> "number", n |-> 500, d |-> 3]
    /\ reporter._sampleIdx = 0

\* C4: after the report of a window boundary every average of the reporter
\* (the total packet loss too) has count 0 and sum 0.
C4_BoundaryClearsEveryAverage ==
    (last.ev = "LOCAL_STATS_UPDATED" /\ last.outcome = "reported") =>
        \A i \in 1 .. 10 : Cleared(AllAverages(reporter)[i])

\* A connection stats sample that brings the JVB monitor to its window
\* boundary while RTT statistics are supported.
JvbBoundary ==
    /\ last'.ev = "CONNECTION_STATS"
    /\ ~last'.isP2P
    /\ last'.rtt
    /\ last'.defined
    /\ "jvb._onConnectionStats" \in listeners
    /\ jvbStatsMonitor._sampleIdx + 1 >= jvbStatsMonitor._n

\* C5: at a window boundary of the JVB monitor with RTT statistics
\* supported, stat.avg.end2endrtt is sent if and only if the local RTT
\* average is a number and some participant's average is a number, and its
\* value is the local average plus the mean of the participants' averages
\* that are numbers; no other step sends that event (the P2P monitor never
\* does).
C5_End2EndRTT ==
    /\ [][JvbBoundary =>
            LET map   == jvbStatsMonitor._avgRemoteRTTMap
                local == sent'[1].value
            IN  /\ sent'[1].name = "stat.avg.rtt"
                /\ (E2E(sent') # {})
                       <=> (~IsNaN(local) /\ DefinedIds(map) # {})
                /\ \A i \in E2E(sent') :
                       sent'[i].value = Plus(local, MeanOfDefined(map))]_vars
    /\ [][E2E(sent') # {} => JvbBoundary]_vars

C5_Witness ==
    /\ last.ev = "CONNECTION_STATS"
    /\ Len(sent) = 2
    /\ sent[1] = [name |-> "stat.avg.rtt", wrapped |-> TRUE,
                  value |-> Num(50)]
    /\ sent[2] = [name |-> "stat.avg.end2endrtt", wrapped |-> FALSE,
                  value |-> Num(100)]

\* C6: a USER_LEFT event for participant p removes p's entry from the JVB
\* monitor's map, whatever its average, and leaves every other entry, the
\* local RTT average and _sampleIdx as they were; the mean of the
\* participants' averages is then that of the others alone.
C6_UserLeftRemovesOnlyThatEntry ==
    [][(last'.ev = "USER_LEFT" /\ "jvb._onUserLeft" \in listeners) =>
          LET map    == jvbStatsMonitor._avgRemoteRTTMap
              map2   == jvbStatsMonitor'._avgRemoteRTTMap
              others == (DOMAIN map) \ {last'.id}
          IN  /\ DOMAIN map2 = others
              /\ \A q \in others : map2[q] = map[q]
              /\ jvbStatsMonitor'._avgRTT = jvbStatsMonitor._avgRTT
              /\ jvbStatsMonitor'._sampleIdx = jvbStatsMonitor._sampleIdx
              /\ _calculateAvgRemoteRTT(map2)
                     = MeanOfDefined([q \in others |-> map[q]])]_vars

C6_Witness ==
    /\ last.ev = "USER_LEFT"
    /\ last.id = "p2"
    /\ last.known
    /\ DOMAIN jvbStatsMonitor._avgRemoteRTTMap = {"p1"}
    /\ jvbStatsMonitor._avgRemoteRTTMap["p1"].count = 2
    /\ jvbStatsMonitor._avgRTT.count = 1
    /\ jvbStatsMonitor._sampleIdx = 2

\* C7: a reporter constructed with n <= 0 has no field but _n, no monitors
\* and no listeners, and nothing is ever sent, whatever the conference
\* delivers.
C7_DisabledIsInert ==
    reporter._n <= 0 =>
        /\ reporter = [_n |-> reporter._n]
        /\ jvbStatsMonitor = Undefined
        /\ p2pStatsMonitor = Undefined
        /\ listeners = {}
        /\ sent = <<>>

C7_Witness ==
    /\ reporter._n = 0
    /\ last.ev = "LOCAL_STATS_UPDATED"
    /\ last.missing = "none"
    /\ last.peerCount = 1
    /\ isP2PActive

\* C8: dispose() on a reporter constructed with n <= 0 raises no error.
C8_DisabledDisposeIsNoOp ==
    (reporter._n <= 0 /\ last.ev = "dispose") => ~last.threw

\* C9: a local sample that is not skipped and is absent or lacks one of
\* bitrate, bandwidth, packetLoss, framerate changes nothing in the
\* reporter (its _sampleIdx and the count and sum of every average) and
\* sends nothing.
C9_MalformedSampleDropped ==
    [][(LocalHandled /\ ~ShortCircuit(isP2PActive, last'.peerCount)
            /\ last'.missing # "none")
           => (reporter' = reporter /\ sent' = <<>>)]_vars

C9_Witness ==
    /\ last.ev = "LOCAL_STATS_UPDATED"
    /\ last.outcome = "dropped"
    /\ last.missing = "framerate"
    /\ last.peerCount = 1
    /\ reporter._sampleIdx = 2

\* C10: dispose() on an enabled reporter leaves no listener and sends
\* nothing; from then on no event changes the reporter or a monitor, and
\* nothing is sent.
C10_DisposeDetachesAll ==
    /\ []((reporter._n > 0 /\ last.ev = "dispose")
              => (listeners = {} /\ sent = <<>>))
    /\ [][(reporter._n > 0 /\ listeners = {}) =>
            /\ reporter' = reporter
            /\ jvbStatsMonitor' = jvbStatsMonitor
            /\ p2pStatsMonitor' = p2pStatsMonitor
            /\ listeners' = {}
            /\ sent' = <<>>]_vars

C10_Witness ==
    /\ reporter._n > 0
    /\ listeners = {}
    /\ last.ev = "CONNECTION_STATS"
    /\ ~last.isP2P
    /\ reporter._sampleIdx > 0
    /\ jvbStatsMonitor._sampleIdx > 0
    /\ DOMAIN jvbStatsMonitor._avgRemoteRTTMap # {}
    /\ isP2PActive

\* The numbers among the values of a history, and their mean computed on
\* integers: NaN when there is none.
NumbersOf(values) == SelectSeq(values, LAMBDA v : v.t = "number")

MeanOf(values) ==
    LET numbers == NumbersOf(values)
    IN  IF numbers = <<>> THEN NaN ELSE Rat(SumOf(numbers), Len(numbers))

\* C11: whatever addNext and reset calls _avgBitrateUp has received, its
\* count is the number of numeric values handed to addNext since the last
\* reset (or since it was created), its sum is their sum, and calculate()
\* is their arithmetic mean, NaN when there is none: so it is NaN right
\* after a reset.  calculate() reads the average and leaves it as it is.
C11_CalculateIsMean ==
    reporter._n > 0 =>
        /\ reporter._avgBitrateUp.count = Len(NumbersOf(fedBitrateUp))
        /\ reporter._avgBitrateUp.sum = Num(SumOf(NumbersOf(fedBitrateUp)))
        /\ calculate(reporter._avgBitrateUp) = MeanOf(fedBitrateUp)
        /\ fedBitrateUp = <<>> => IsNaN(calculate(reporter._avgBitrateUp))

\* After a reset (a mode switch: the total packet loss has a sample more)
\* two numbers were fed: the mean is 150.
C11_Witness ==
    /\ reporter._n = MaxN
    /\ reporter._avgPacketLossTotal.count = 3
    /\ Len(fedBitrateUp) = 2
    /\ NumbersOf(fedBitrateUp) = <<Num(100), Num(200)>>
    /\ calculate(reporter._avgBitrateUp) = Num(150)

\* C12: when a local sample is accumulated whose upload bitrate is not a
\* number, addNext leaves count and sum of _avgBitrateUp as they were, and
\* the reporter goes on with the sample: its _sampleIdx grows by one.
C12_NonNumericIgnored ==
    [][(/\ LocalHandled
        /\ last'.outcome = "accumulated"
        /\ fedBitrateUp' = Append(fedBitrateUp, Undefined))
           => /\ reporter'._avgBitrateUp = reporter._avgBitrateUp
              /\ reporter'._sampleIdx = reporter._sampleIdx + 1]_vars

\* A sample without numbers was accumulated after one with upload 100.
C12_Witness ==
    /\ last.ev = "LOCAL_STATS_UPDATED"
    /\ last.outcome = "accumulated"
    /\ fedBitrateUp = <<Num(100), Undefined>>
    /\ reporter._avgBitrateUp = [count |-> 1, sum |-> Num(100)]
    /\ reporter._sampleIdx = 2

\* C13: every mode change reaches the reporter as a P2P_STATUS event before
\* the next local sample; then every value sent at a window boundary of the
\* reporter comes only from samples taken in the mode the conference is in
\* at the boundary (the mode of the events' prefix): no average that is
\* reported, the total packet loss included, holds a sample of the other
\* mode.
C13_EmittedFromCurrentModeOnly ==
    [][(LocalHandled /\ last'.outcome = "reported")
           => (fedModes.window \cup fedModes.total) \subseteq {isP2PActive}]_vars

\* The names of the events of a sequence.
NamesOf(events) == {events[i].name : i \in 1 .. Len(events)}

\* _sampleIdx after one more sample of a window of n.
NextIdx(idx, n) == IF idx + 1 >= n THEN 0 ELSE idx + 1

\* C14: connection stats of the other connection leave a monitor as it
\* is (_sampleIdx, _avgRTT, _avgRemoteRTTMap) and make it send nothing;
\* stats of its own connection, and only they, advance its _sampleIdx,
\* whatever mode the conference is in.
C14_OtherModeSampleIgnored ==
    [][last'.ev = "CONNECTION_STATS" =>
          /\ last'.isP2P =>
                /\ jvbStatsMonitor' = jvbStatsMonitor
                /\ NamesOf(sent') \subseteq {"p2p.stat.avg.rtt"}
                /\ ("p2p._onConnectionStats" \in listeners /\ last'.defined)
                      => p2pStatsMonitor'._sampleIdx =
                             NextIdx(p2pStatsMonitor._sampleIdx,
                                     p2pStatsMonitor._n)
          /\ ~last'.isP2P =>
                /\ p2pStatsMonitor' = p2pStatsMonitor
                /\ NamesOf(sent') \subseteq
                       {"stat.avg.rtt", "stat.avg.end2endrtt"}
                /\ ("jvb._onConnectionStats" \in listeners /\ last'.defined)
                      => jvbStatsMonitor'._sampleIdx =
                             NextIdx(jvbStatsMonitor._sampleIdx,
                                     jvbStatsMonitor._n)]_vars

\* Stats of the P2P connection came while the conference was on the JVB:
\* the P2P monitor is at its second sample, the JVB monitor still has its
\* one sample and its participant.
C14_Witness ==
    /\ last.ev = "CONNECTION_STATS"
    /\ last.isP2P
    /\ ~isP2PActive
    /\ "jvb._onConnectionStats" \in listeners
    /\ p2pStatsMonitor._sampleIdx = 2
    /\ jvbStatsMonitor._sampleIdx = 1
    /\ jvbStatsMonitor._avgRTT = [count |-> 1, sum |-> Num(70)]
    /\ DOMAIN jvbStatsMonitor._avgRemoteRTTMap = {"p1"}

\* A sample of the JVB connection the JVB monitor handled in this step,
\* with RTT statistics supported.
JvbSampleWithRTT ==
    /\ last'.ev = "CONNECTION_STATS"
    /\ ~last'.isP2P
    /\ last'.defined
    /\ last'.rtt
    /\ "jvb._onConnectionStats" \in listeners

\* C15: with RTT statistics supported, a sample of the monitor's own
\* connection that has no transport (absent or empty) leaves _avgRTT at
\* count 0, sum 0 and still adds one to _sampleIdx; so _avgRTT always holds
\* exactly the numbers delivered since the latest such sample of the
\* window, and the stat.avg.rtt sent at the boundary is their mean, NaN if
\* there is none.
C15_EmptyTransportResets ==
    /\ [](jvbStatsMonitor.t = "object" =>
             /\ jvbStatsMonitor._avgRTT.count = Len(fedRTT)
             /\ jvbStatsMonitor._avgRTT.sum = Num(SumOf(fedRTT)))
    /\ [][(JvbSampleWithRTT /\ ~last'.transport) =>
             /\ jvbStatsMonitor'._sampleIdx =
                    NextIdx(jvbStatsMonitor._sampleIdx, jvbStatsMonitor._n)
             /\ Cleared(jvbStatsMonitor'._avgRTT)
             /\ jvbStatsMonitor._sampleIdx + 1 >= jvbStatsMonitor._n
                    => /\ sent'[1].name = "stat.avg.rtt"
                       /\ IsNaN(sent'[1].value)]_vars
    /\ [][(JvbSampleWithRTT /\ sent' # <<>>) =>
             /\ sent'[1].name = "stat.avg.rtt"
             /\ sent'[1].value = MeanOf(last'.window)]_vars

\* The second sample of a window of three came without transport, with
\* RTT statistics supported: the average is empty at _sampleIdx 2.
C15_Witness ==
    /\ last.ev = "CONNECTION_STATS"
    /\ ~last.isP2P
    /\ last.defined
    /\ last.rtt
    /\ ~last.transport
    /\ "jvb._onConnectionStats" \in listeners
    /\ jvbStatsMonitor._n = 3
    /\ jvbStatsMonitor._sampleIdx = 2
    /\ Cleared(jvbStatsMonitor._avgRTT)

\* A remote stats update the JVB monitor handled in this step.
RemoteHandled ==
    /\ last'.ev = "REMOTE_STATS_UPDATED"
    /\ "jvb._onRemoteStatsUpdated" \in listeners

\* sum + value, computed on integers (NaN as soon as one is not finite).
SumWith(sum, value) ==
    IF sum.d = 1 /\ value.d = 1 THEN Num(sum.n + value.n) ELSE NaN

\* C16: a remote stats update for participant id handled by the JVB
\* monitor: with a numeric jvbRTT the participant has an entry afterwards
\* (a new one if there was none) with one more in count and the value more
\* in sum; without one the participant has no entry afterwards; the other
\* participants' entries, _avgRTT and _sampleIdx are as before, and nothing
\* is sent.
C16_RemoteUpdate ==
    [][RemoteHandled =>
          LET id     == last'.id
              map    == jvbStatsMonitor._avgRemoteRTTMap
              after  == jvbStatsMonitor'._avgRemoteRTTMap
              before == IF id \in DOMAIN map THEN map[id]
                        ELSE [count |-> 0, sum |-> Num(0)]
          IN  /\ last'.jvbRTT.t = "number" =>
                    /\ id \in DOMAIN after
                    /\ after[id].count = before.count + 1
                    /\ after[id].sum = SumWith(before.sum, last'.jvbRTT)
              /\ last'.jvbRTT.t # "number" => id \notin DOMAIN after
              /\ DOMAIN after \ {id} = DOMAIN map \ {id}
              /\ \A other \in DOMAIN map \ {id} : after[other] = map[other]
              /\ jvbStatsMonitor'._sampleIdx = jvbStatsMonitor._sampleIdx
              /\ jvbStatsMonitor'._avgRTT = jvbStatsMonitor._avgRTT
              /\ p2pStatsMonitor' = p2pStatsMonitor
              /\ sent' = <<>>]_vars

\* Participant p1 sent 40 a second time: its entry holds two values, p2's
\* entry its one, and the window is under way.
C16_Witness ==
    /\ last.ev = "REMOTE_STATS_UPDATED"
    /\ last.id = "p1"
    /\ last.jvbRTT = Num(40)
    /\ "jvb._onRemoteStatsUpdated" \in listeners
    /\ DOMAIN jvbStatsMonitor._avgRemoteRTTMap = {"p1", "p2"}
    /\ jvbStatsMonitor._avgRemoteRTTMap["p1"] = [count |-> 2, sum |-> Num(80)]
    /\ jvbStatsMonitor._avgRemoteRTTMap["p2"] = [count |-> 1, sum |-> Num(60)]
    /\ jvbStatsMonitor._sampleIdx = 1

\* What a sample of its own connection does to a monitor that is at m
\* when RTT statistics are not supported: m1 afterwards.
UnsupportedSample(m, m1) ==
    /\ m1._sampleIdx = NextIdx(m._sampleIdx, m._n)
    /\ IF m._sampleIdx + 1 >= m._n
       THEN Cleared(m1._avgRTT) /\ DOMAIN m1._avgRemoteRTTMap = {}
       ELSE m1._avgRTT = m._avgRTT
            /\ m1._avgRemoteRTTMap = m._avgRemoteRTTMap

\* C17: a sample of a monitor's own connection that arrives while RTT
\* statistics are not supported sends nothing, also when it closes the
\* window; it adds one to _sampleIdx and leaves _avgRTT as it is, and at
\* the boundary _avgRTT is reset and _sampleIdx is 0.  The capability is
\* asked for in every call: supported and unsupported samples alternate.
C17_UnsupportedRTT ==
    [][(/\ last'.ev = "CONNECTION_STATS"
        /\ last'.defined
        /\ ~last'.rtt)
           => /\ sent' = <<>>
              /\ ("jvb._onConnectionStats" \in listeners /\ ~last'.isP2P)
                    => UnsupportedSample(jvbStatsMonitor, jvbStatsMonitor')
              /\ ("p2p._onConnectionStats" \in listeners /\ last'.isP2P)
                    => UnsupportedSample(p2pStatsMonitor,
                                         p2pStatsMonitor')]_vars

\* The third sample of a window of three of the JVB connection carried an
\* rtt while RTT statistics were not supported: nothing was sent, the
\* window is closed.
C17_Witness ==
    /\ last.ev = "CONNECTION_STATS"
    /\ ~last.isP2P
    /\ last.defined
    /\ last.transport
    /\ ~last.rtt
    /\ "jvb._onConnectionStats" \in listeners
    /\ jvbStatsMonitor._n = 3
    /\ jvbStatsMonitor._sampleIdx = 0
    /\ Cleared(jvbStatsMonitor._avgRTT)
    /\ sent = <<>>

\* The events only a monitor sends.
MonitorEvents == {"stat.avg.rtt", "stat.avg.end2endrtt", "p2p.stat.avg.rtt"}

\* C18: for a reporter constructed with n > 0, between any two handlers
\* the _sampleIdx of the reporter and of both monitors is in 0 .. n - 1 and
\* the _avgRTT of each monitor has a count of at most its _sampleIdx; and
\* events are sent only by the handler of the sample that is the n-th of
\* its aggregator's window, and only by that aggregator.
C18_SampleIdxInWindow ==
    /\ [](reporter._n > 0 =>
             /\ reporter._sampleIdx \in 0 .. reporter._n - 1
             /\ jvbStatsMonitor._sampleIdx \in 0 .. jvbStatsMonitor._n - 1
             /\ p2pStatsMonitor._sampleIdx \in 0 .. p2pStatsMonitor._n - 1
             /\ jvbStatsMonitor._n = reporter._n
             /\ p2pStatsMonitor._n = reporter._n
             /\ jvbStatsMonitor._avgRTT.count <= jvbStatsMonitor._sampleIdx
             /\ p2pStatsMonitor._avgRTT.count <= p2pStatsMonitor._sampleIdx)
    /\ [][sent' # <<>> =>
             \/ /\ LocalHandled
                /\ reporter._sampleIdx + 1 = reporter._n
                /\ NamesOf(sent') \cap MonitorEvents = {}
             \/ /\ last'.ev = "CONNECTION_STATS"
                /\ ~last'.isP2P
                /\ jvbStatsMonitor._sampleIdx + 1 = jvbStatsMonitor._n
                /\ NamesOf(sent') \subseteq
                       {"stat.avg.rtt", "stat.avg.end2endrtt"}
             \/ /\ last'.ev = "CONNECTION_STATS"
                /\ last'.isP2P
                /\ p2pStatsMonitor._sampleIdx + 1 = p2pStatsMonitor._n
                /\ NamesOf(sent') = {"p2p.stat.avg.rtt"}]_vars

\* With n = 3 every aggregator is inside its window, at a different place,
\* and the last event closed a window of the JVB monitor.
C18_Witness ==
    /\ reporter._n = 3
    /\ reporter._sampleIdx = 2
    /\ p2pStatsMonitor._sampleIdx = 1
    /\ jvbStatsMonitor._sampleIdx = 0
    /\ last.ev = "CONNECTION_STATS"
    /\ ~last.isP2P
    /\ sent # <<>>

\* C19: the sample that closes a window of the JVB monitor leaves its
\* _avgRemoteRTTMap empty, also when RTT statistics are not supported and
\* nothing is reported; a participant gets an entry only by a remote stats
\* update with a number, so it counts in the next window's average only if
\* it reports again; the P2P monitor's map is empty in every state.
C19_MapClearedAtBoundary ==
    /\ [](p2pStatsMonitor.t = "object"
             => DOMAIN p2pStatsMonitor._avgRemoteRTTMap = {})
    /\ [][(/\ last'.ev = "CONNECTION_STATS"
           /\ ~last'.isP2P
           /\ last'.defined
           /\ "jvb._onConnectionStats" \in listeners
           /\ jvbStatsMonitor._sampleIdx + 1 >= jvbStatsMonitor._n)
              => DOMAIN jvbStatsMonitor'._avgRemoteRTTMap = {}]_vars
    /\ [][jvbStatsMonitor.t = "object" =>
             \A id \in DOMAIN jvbStatsMonitor'._avgRemoteRTTMap :
                 id \notin DOMAIN jvbStatsMonitor._avgRemoteRTTMap
                     => /\ last'.ev = "REMOTE_STATS_UPDATED"
                        /\ last'.id = id
                        /\ last'.valid]_vars

\* A window of the JVB monitor was closed with an end-to-end RTT, so with
\* participants in the map: the map is empty now.
C19_Witness ==
    /\ last.ev = "CONNECTION_STATS"
    /\ ~last.isP2P
    /\ E2E(sent) # {}
    /\ jvbStatsMonitor._sampleIdx = 0
    /\ DOMAIN jvbStatsMonitor._avgRemoteRTTMap = {}

\* C20: for a reporter constructed with n > 0 that is never disposed, to
\* which local samples with every field and another participant keep
\* arriving (the fairness of SpecLive), if P2P_STATUS occurs only finitely
\* often (from some point on it is never the last event) then the reporter
\* sends the events of a window boundary again and again.
C20_BoundaryInfinitelyOften ==
    (/\ [](reporter._n > 0 /\ "reporter._onLocalStatsUpdated" \in listeners)
     /\ <>[](last.ev # "P2P_STATUS"))
        => []<>(/\ last.ev = "LOCAL_STATS_UPDATED"
                /\ last.outcome = "reported"
                /\ sent # <<>>)

\* The third sample since the mode switch closed a window of three after
\* an incomplete window had been dropped by the switch.
C20_Witness ==
    /\ reporter._n = 3
    /\ isP2PActive
    /\ "reporter._onLocalStatsUpdated" \in listeners
    /\ last.ev = "LOCAL_STATS_UPDATED"
    /\ last.outcome = "reported"
    /\ Len(last.window) = 3
    /\ sent # <<>>

====
